---- MODULE Spec2Model ----
(***************************************************************************)
(* The main window of the Altman rating tracker (ui/main_window.py):       *)
(* construction of the window step by step (MainWindow.__init__), the      *)
(* summary recomputation on slider changes, the commit and delete          *)
(* actions, the two page-switching menu actions, the close event and the   *)
(* settings store that survives from one session to the next.              *)
(***************************************************************************)
EXTENDS Integers, Sequences, FiniteSets, TLC

\* ---------------------------------------------------------------- bounds
\* Largest value the generated layout may have given a slider before
\* altman_table_commit sets the range.
LayoutMax == 5
\* Dates and times are the stamps 0..MaxStamp.
MaxStamp == 1
\* The table holds at most MaxRows rows.
MaxRows == 1

\* ------------------------------------------------------ program constants
SliderMin == 0
SliderMax == 4
\* The default of the lastPageIndex read taken as the other page.
DefaultPageIndex_other == 0 + 1
DefaultPageIndex == 0
NumPages == 2
OnePageIndex == 0
TwoPageIndex == 1

SliderOrder ==
    <<"altmans_sleep", "altmans_speech", "altmans_activity", "altmans_cheer",
      "altmans_confidence">>

SliderNames == {SliderOrder[i] : i \in 1..Len(SliderOrder)}

Stamps == 0..MaxStamp

ExamSize == <<476, 175>>
\* switchtwo pinning the window to the size of the exam page.
TableSize_exam == ExamSize
TableSize == <<800, 460>>
\* The size the generated layout gives the window (not one of the two above).
LayoutSize == <<0, 0>>
\* QByteArray(): the empty blob, the default of the two geometry reads.
EmptyBlob == <<>>
\* What saveState() returns: an opaque blob.
StateBlob == <<"windowState">>

\* The mapping with the widgets of two fields exchanged.
FieldMap_swapped ==
    [k \in {"altman_date", "altman_time", "altmans_sleep", "altmans_speech",
            "altmans_activity", "altmans_cheer", "altmans_confidence",
            "altmans_summary"} |->
        IF k = "altmans_sleep" THEN "altmans_speech"
        ELSE IF k = "altmans_speech" THEN "altmans_sleep" ELSE k]
    @@ ("model" :> "altmans_model")

\* The mapping the commit lambda hands to add_altmans_data: key -> widget name.
FieldMap ==
    [k \in {"altman_date", "altman_time", "altmans_sleep", "altmans_speech",
            "altmans_activity", "altmans_cheer", "altmans_confidence",
            "altmans_summary"} |-> k]
    @@ ("model" :> "altmans_model")

\* The keys of the mapping that name input widgets (all but the model).
Columns == DOMAIN FieldMap \ {"model"}

\* The page each menu action is given in stack_navigation's dictionary.
NavPage(action) == IF action = "exam" THEN 0 ELSE 1

\* ----------------------------------------------------------------- state
VARIABLES
    pc,           \* position in __init__, then "running", "closed" or "crashed"
    value,        \* slider name -> value
    range,        \* <<minimum, maximum>> of the five sliders
    summary,      \* altmans_summary
    date,         \* altman_date
    time,         \* altman_time
    page,         \* stackedWidget.currentIndex()
    size,         \* <<width, height>> of the window
    fixed,        \* TRUE once setFixedSize pinned the size
    wired,        \* the connections made so far
    settings,     \* the QSettings store: key -> value, absent keys not in DOMAIN
    rows,         \* number of rows of the table
    calls,        \* the collaborator calls made by the last handler
    writes,       \* the settings keys the last handler tried to write
    log,          \* the methods that logged an error in this session
    escaped,      \* the method an exception left uncaught, or "none"
    event,        \* the last user event dispatched
    closedPages,  \* {page shown when the previous session closed}, {} if none
    emptyAtStart  \* TRUE when this session found nothing saved in the store

vars ==
    <<pc, value, range, summary, date, time, page, size, fixed, wired, settings,
      rows, calls, writes, log, escaped, event, closedPages, emptyAtStart>>

\* ---------------------------------------------------------------- helpers
\* settings.value(key, default)
Get(s, k, default) == IF k \in DOMAIN s THEN s[k] ELSE default

\* settings.setValue(key, v)
Put(s, k, v) == [x \in DOMAIN s \cup {k} |-> IF x = k THEN v ELSE s[x]]

RECURSIVE SumSeq(_)
SumSeq(s) == IF s = <<>> THEN 0 ELSE Head(s) + SumSeq(Tail(s))

\* The list comprehension of update_altmans_summary: the values above zero,
\* in the order of the sliders.
PositiveValues(val) ==
    SelectSeq([i \in 1..Len(SliderOrder) |-> val[SliderOrder[i]]], LAMBDA v : v > 0)

\* int(sum(values)), what update_altmans_summary writes into the summary.
AltmansSum(val) == SumSeq(PositiveValues(val))

\* What QSlider.setRange(lo, hi) does to a value outside the new range.
Clamp(v, lo, hi) == IF v < lo THEN lo ELSE IF v > hi THEN hi ELSE v

\* QStackedWidget.setCurrentIndex(i): an index with no page is ignored.
PageAfter(p, i) == IF i \in 0..(NumPages - 1) THEN i ELSE p

\* on_page_changed that stores nothing.
on_page_changed_dropped(s, index, wf) == s

\* on_page_changed(index) on the store s; wf: settings.setValue raises.
on_page_changed(s, index, wf) == IF wf THEN s ELSE Put(s, "lastPageIndex", index)

\* The store after the stack went from page p to page q: currentChanged is
\* emitted only for a change, and reaches on_page_changed only when connected.
StoreAfter(s, p, q, connected, wf) ==
    IF p # q /\ connected THEN on_page_changed(s, q, wf) ELSE s

\* The keys on_page_changed tried to write for the move from p to q.
WritesFor(p, q, connected) ==
    IF p # q /\ connected THEN <<"lastPageIndex">> ELSE <<>>

\* The methods that logged for the move from p to q.
LogFor(p, q, connected, wf) ==
    IF p # q /\ connected /\ wf THEN {"on_page_changed"} ELSE {}

\* The value a widget named in the mapping holds now (what add_altmans_data
\* reads through the window it is given).
ReadWidget(name) ==
    IF name \in SliderNames THEN value[name]
    ELSE IF name = "altmans_summary" THEN summary
    ELSE IF name = "altman_date" THEN date
    ELSE time

\* add_altmans_data(self, mapping, insert): one call, reading the widgets the
\* mapping names at the time of the call.
add_altmans_data ==
    [op |-> "add_altmans_data",
     mapping |-> FieldMap,
     row |-> [c \in Columns |-> ReadWidget(FieldMap[c])],
     insert |-> "insert_into_altman_table"]

\* delete_selected_rows(self, table, model)
delete_selected_rows ==
    [op |-> "delete_selected_rows",
     table |-> "altmans_manic_rating_table",
     model |-> "altmans_model"]

\* save_state without its second try block.
SaveStateKeys_geometryOnly == <<"geometry">>

\* The keys save_state writes, in order.
SaveStateKeys == <<"geometry", "windowState">>

\* ------------------------------------------------------------------ Init
\* The widgets as the generated layout leaves them and an empty session.
Fresh ==
    /\ pc = "setup_models"
    /\ range = <<0, LayoutMax>>
    /\ summary = 0
    /\ date = 0
    /\ time = 0
    /\ size = LayoutSize
    /\ fixed = FALSE
    /\ wired = {}
    /\ rows = 0
    /\ calls = <<>>
    /\ writes = <<>>
    /\ log = {}
    /\ escaped = "none"
    /\ event = "none"
    /\ closedPages = {}

\* The store with no key saved.
EmptyStore == [k \in {} |-> 0]

\* The stores an earlier session can have left behind: each key absent or
\* holding a value this program writes.
SavedSettings ==
    {a @@ b @@ c :
        a \in {EmptyStore} \cup {("lastPageIndex" :> i) : i \in 0..(NumPages - 1)},
        b \in {EmptyStore} \cup {("geometry" :> g) : g \in {LayoutSize, ExamSize, TableSize}},
        c \in {EmptyStore, ("windowState" :> StateBlob)}}

\* The form: any layout values of the sliders, first start (nothing saved).
Init ==
    /\ Fresh
    /\ value \in [SliderNames -> 0..LayoutMax]
    /\ page = 0
    /\ settings = EmptyStore
    /\ emptyAtStart = TRUE

\* The window: sliders at the QSlider default, any layout page, any store.
InitWindow ==
    /\ Fresh
    /\ value = [n \in SliderNames |-> 0]
    /\ page \in 0..(NumPages - 1)
    /\ settings \in SavedSettings
    /\ emptyAtStart = (settings = EmptyStore)

\* ---------------------------------------------------------- construction
\* The variables no step of __init__ touches.
SessionKept == UNCHANGED <<rows, calls, event, closedPages, emptyAtStart>>

\* setup_models (no try): f: create_and_set_model raises.
setup_models(f) ==
    /\ pc = "setup_models"
    /\ pc' = IF f THEN "crashed" ELSE "app_operations"
    /\ escaped' = IF f THEN "setup_models" ELSE escaped
    /\ writes' = <<>>
    /\ SessionKept
    /\ UNCHANGED <<value, range, summary, date, time, page, size, fixed, wired,
                   settings, log>>

\* app_operations: f names what raises inside the try ("connect": the
\* connection of currentChanged, "read": settings.value), wf: the write of
\* on_page_changed raises; now: the clock.
app_operations(f, wf, now) ==
    /\ pc = "app_operations"
    /\ LET connected == f # "connect"
           last == Get(settings, "lastPageIndex", DefaultPageIndex)
           q == IF f = "none" THEN PageAfter(page, last) ELSE page
       IN /\ wired' = IF connected THEN wired \cup {"on_page_changed"} ELSE wired
          /\ page' = q
          /\ settings' = StoreAfter(settings, page, q, connected, wf)
          /\ writes' = WritesFor(page, q, connected)
          /\ log' = log \cup (IF f = "none" THEN {} ELSE {"app_operations"})
                        \cup LogFor(page, q, connected, wf)
    /\ time' = IF f = "none" THEN now ELSE time
    /\ date' = IF f = "none" THEN now ELSE date
    /\ pc' = "restore_state"
    /\ SessionKept
    /\ UNCHANGED <<value, range, summary, size, fixed, escaped>>

\* restore_state: fg, fs: the first, the second try block raises.
restore_state(fg, fs) ==
    /\ pc = "restore_state"
    /\ LET blob == Get(settings, "geometry", EmptyBlob)
       IN size' = IF ~fg /\ blob # EmptyBlob THEN blob ELSE size
    /\ log' = log \cup (IF fg \/ fs THEN {"restore_state"} ELSE {})
    /\ writes' = <<>>
    /\ pc' = "stack_navigation"
    /\ SessionKept
    /\ UNCHANGED <<value, range, summary, date, time, page, fixed, wired,
                   settings, escaped>>

\* stack_navigation: the dictionary is walked in order; f = 0: no connection
\* raises, f = i: the i-th one does and ends the loop.
stack_navigation(f) ==
    /\ pc = "stack_navigation"
    /\ wired' = wired \cup (IF f = 1 THEN {} ELSE {"nav_exam"})
                      \cup (IF f = 0 THEN {"nav_table"} ELSE {})
    /\ log' = log \cup (IF f = 0 THEN {} ELSE {"stack_navigation"})
    /\ writes' = <<>>
    /\ pc' = "delete_group"
    /\ SessionKept
    /\ UNCHANGED <<value, range, summary, date, time, page, size, fixed,
                   settings, escaped>>

\* delete_group (no try): f: the connection raises.
delete_group(f) ==
    /\ pc = "delete_group"
    /\ wired' = IF f THEN wired ELSE wired \cup {"delete"}
    /\ escaped' = IF f THEN "delete_group" ELSE escaped
    /\ pc' = IF f THEN "crashed" ELSE "update_altmans_summary"
    /\ writes' = <<>>
    /\ SessionKept
    /\ UNCHANGED <<value, range, summary, date, time, page, size, fixed,
                   settings, log>>

\* update_altmans_summary, as __init__ calls it; f: something in the try raises.
update_altmans_summary(f) ==
    /\ pc = "update_altmans_summary"
    /\ summary' = IF f THEN summary ELSE AltmansSum(value)
    /\ log' = log \cup (IF f THEN {"update_altmans_summary"} ELSE {})
    /\ pc' = "altman_table_commit"
    /\ writes' = <<>>
    /\ SessionKept
    /\ UNCHANGED <<value, range, date, time, page, size, fixed, wired, settings,
                   escaped>>

\* altman_table_commit: f = "commit": the connection of actionCommit raises
\* (inside the try); f = "sliders": a connection of valueChanged raises (after
\* the try). setRange clamps the values; its change notifications reach no
\* slot, the slots being connected after it.
altman_table_commit(f) ==
    /\ pc = "altman_table_commit"
    /\ wired' = wired \cup (IF f = "commit" THEN {} ELSE {"commit"})
                      \cup (IF f = "sliders" THEN {} ELSE SliderNames)
    /\ range' = <<SliderMin, SliderMax>>
    /\ value' = [n \in SliderNames |-> Clamp(value[n], SliderMin, SliderMax)]
    /\ log' = log \cup (IF f = "commit" THEN {"altman_table_commit"} ELSE {})
    /\ escaped' = IF f = "sliders" THEN "altman_table_commit" ELSE escaped
    /\ pc' = IF f = "sliders" THEN "crashed" ELSE "switch_page_view_setup"
    /\ writes' = <<>>
    /\ SessionKept
    /\ UNCHANGED <<summary, date, time, page, size, fixed, settings>>

\* switch_page_view_setup (no try): f: a connection raises.
switch_page_view_setup(f) ==
    /\ pc = "switch_page_view_setup"
    /\ wired' = IF f THEN wired ELSE wired \cup {"switchone", "switchtwo"}
    /\ escaped' = IF f THEN "switch_page_view_setup" ELSE escaped
    /\ pc' = IF f THEN "crashed" ELSE "running"
    /\ writes' = <<>>
    /\ SessionKept
    /\ UNCHANGED <<value, range, summary, date, time, page, size, fixed,
                   settings, log>>

\* ------------------------------------------------------------- the form
\* What no handler of the form touches.
WindowKept ==
    UNCHANGED <<pc, range, page, size, fixed, wired, settings, log, escaped,
                closedPages, emptyAtStart>>

\* A slider change that also commits the entry.
valueChanged_committing(n, v) ==
    /\ pc = "running"
    /\ v \in range[1]..range[2]
    /\ v # value[n]
    /\ value' = [value EXCEPT ![n] = v]
    /\ summary' = IF n \in wired THEN AltmansSum(value') ELSE summary
    /\ event' = "edit"
    /\ calls' = <<add_altmans_data>>
    /\ writes' = <<>>
    /\ WindowKept
    /\ UNCHANGED <<date, time, rows>>

\* The user moves slider n to v; valueChanged runs update_altmans_summary.
valueChanged(n, v) ==
    /\ pc = "running"
    /\ v \in range[1]..range[2]
    /\ v # value[n]
    /\ value' = [value EXCEPT ![n] = v]
    /\ summary' = IF n \in wired THEN AltmansSum(value') ELSE summary
    /\ event' = "edit"
    /\ calls' = <<>>
    /\ writes' = <<>>
    /\ WindowKept
    /\ UNCHANGED <<date, time, rows>>

\* The user edits the date field.
DateEdited(d) ==
    /\ pc = "running"
    /\ d # date
    /\ date' = d
    /\ event' = "edit"
    /\ calls' = <<>>
    /\ writes' = <<>>
    /\ WindowKept
    /\ UNCHANGED <<value, summary, time, rows>>

\* The user edits the time field.
TimeEdited(t) ==
    /\ pc = "running"
    /\ t # time
    /\ time' = t
    /\ event' = "edit"
    /\ calls' = <<>>
    /\ writes' = <<>>
    /\ WindowKept
    /\ UNCHANGED <<value, summary, date, rows>>

\* actionCommit.triggered: the lambda of altman_table_commit, when connected.
actionCommit ==
    /\ pc = "running"
    /\ rows < MaxRows
    /\ calls' = IF "commit" \in wired THEN <<add_altmans_data>> ELSE <<>>
    /\ rows' = IF "commit" \in wired THEN rows + 1 ELSE rows
    /\ event' = "commit"
    /\ writes' = <<>>
    /\ WindowKept
    /\ UNCHANGED <<value, summary, date, time>>

\* actionDelete.triggered with k rows selected: the lambda of delete_group.
actionDelete(k) ==
    /\ pc = "running"
    /\ k \in 0..rows
    /\ calls' = IF "delete" \in wired THEN <<delete_selected_rows>> ELSE <<>>
    /\ rows' = IF "delete" \in wired THEN rows - k ELSE rows
    /\ event' = "delete"
    /\ writes' = <<>>
    /\ WindowKept
    /\ UNCHANGED <<value, summary, date, time>>

\* ------------------------------------------------------------ the window
\* change_stack_page(stackedWidget, index)
change_stack_page(p, index) == PageAfter(p, index)

\* A menu action is triggered: its slots run in the order they were connected,
\* the lambda of stack_navigation first, then switchone or switchtwo, which
\* shows the widget at widgetIndex and pins the window to target.
Show(action, nav, switch, widgetIndex, target, wf) ==
    /\ pc = "running"
    /\ LET connected == "on_page_changed" \in wired
           p1 == IF nav \in wired THEN change_stack_page(page, NavPage(action)) ELSE page
           s1 == StoreAfter(settings, page, p1, connected, wf)
           p2 == IF switch \in wired THEN PageAfter(p1, widgetIndex) ELSE p1
           s2 == StoreAfter(s1, p1, p2, connected, wf)
       IN /\ page' = p2
          /\ settings' = s2
          /\ writes' = WritesFor(page, p1, connected) \o WritesFor(p1, p2, connected)
          /\ log' = log \cup LogFor(page, p1, connected, wf)
                        \cup LogFor(p1, p2, connected, wf)
    /\ size' = IF switch \in wired THEN target ELSE size
    /\ fixed' = IF switch \in wired THEN TRUE ELSE fixed
    /\ event' = action
    /\ calls' = <<>>
    /\ UNCHANGED <<pc, value, range, summary, date, time, wired, rows, escaped,
                   closedPages, emptyAtStart>>

\* actionShowAltmanExam.triggered; wf: the write of on_page_changed raises.
actionShowAltmanExam(wf) == Show("exam", "nav_exam", "switchone", OnePageIndex, ExamSize, wf)

\* actionShowAltmanTable.triggered
actionShowAltmanTable(wf) == Show("table", "nav_table", "switchtwo", TwoPageIndex, TableSize, wf)

\* What save_state stores under a key.
SavedValue(k) == IF k = "geometry" THEN size ELSE StateBlob

\* save_state on the store s: each key in its own try; failing: the keys whose
\* setValue raises.
RECURSIVE save_state(_, _, _)
save_state(s, keys, failing) ==
    IF keys = <<>> THEN s
    ELSE save_state(IF Head(keys) \in failing THEN s
                   ELSE Put(s, Head(keys), SavedValue(Head(keys))),
                   Tail(keys), failing)

\* closeEvent
closeEvent(failing) ==
    /\ pc = "running"
    /\ settings' = save_state(settings, SaveStateKeys, failing)
    /\ writes' = SaveStateKeys
    /\ log' = log \cup (IF \E i \in 1..Len(SaveStateKeys) : SaveStateKeys[i] \in failing
                        THEN {"save_state"} ELSE {})
    /\ closedPages' = {page}
    /\ event' = "close"
    /\ calls' = <<>>
    /\ pc' = "closed"
    /\ UNCHANGED <<value, range, summary, date, time, page, size, fixed, wired,
                   rows, escaped, emptyAtStart>>

\* The program is started again: new widgets from the layout, the same store.
Restart ==
    /\ pc = "closed"
    /\ pc' = "setup_models"
    /\ value' = [n \in SliderNames |-> 0]
    /\ range' = <<0, LayoutMax>>
    /\ summary' = 0
    /\ date' = 0
    /\ time' = 0
    /\ page' \in 0..(NumPages - 1)
    /\ size' = LayoutSize
    /\ fixed' = FALSE
    /\ wired' = {}
    /\ calls' = <<>>
    /\ writes' = <<>>
    /\ log' = {}
    /\ escaped' = "none"
    /\ event' = "none"
    /\ emptyAtStart' = (settings = EmptyStore)
    /\ UNCHANGED <<settings, rows, closedPages>>

\* -------------------------------------------------------- specifications
\* __init__ with nothing raising.
Build ==
    \/ setup_models(FALSE)
    \/ \E now \in Stamps : app_operations("none", FALSE, now)
    \/ restore_state(FALSE, FALSE)
    \/ stack_navigation(0)
    \/ delete_group(FALSE)
    \/ update_altmans_summary(FALSE)
    \/ altman_table_commit("none")
    \/ switch_page_view_setup(FALSE)

\* The form in use.
Next ==
    \/ Build
    \/ \E n \in SliderNames, v \in SliderMin..LayoutMax : valueChanged(n, v)
    \/ \E d \in Stamps : DateEdited(d)
    \/ \E t \in Stamps : TimeEdited(t)
    \/ actionCommit
    \/ \E k \in 0..MaxRows : actionDelete(k)

Spec == Init /\ [][Next]_vars

\* The window over several sessions.
NextWindow ==
    \/ Build
    \/ actionShowAltmanExam(FALSE)
    \/ actionShowAltmanTable(FALSE)
    \/ closeEvent({})
    \/ Restart

SpecWindow == InitWindow /\ [][NextWindow]_vars

\* The window with the failures of the settings store, of the connections and
\* of the collaborators.
NextFail ==
    \/ \E f \in BOOLEAN : setup_models(f)
    \/ \E f \in {"none", "connect", "read"}, wf \in BOOLEAN, now \in Stamps :
          app_operations(f, wf, now)
    \/ \E fg \in BOOLEAN, fs \in BOOLEAN : restore_state(fg, fs)
    \/ \E f \in 0..NumPages : stack_navigation(f)
    \/ \E f \in BOOLEAN : delete_group(f)
    \/ \E f \in BOOLEAN : update_altmans_summary(f)
    \/ \E f \in {"none", "commit", "sliders"} : altman_table_commit(f)
    \/ \E f \in BOOLEAN : switch_page_view_setup(f)
    \/ \E wf \in BOOLEAN : actionShowAltmanExam(wf)
    \/ \E wf \in BOOLEAN : actionShowAltmanTable(wf)
    \/ \E failing \in SUBSET {"geometry", "windowState"} : closeEvent(failing)
    \/ Restart

SpecFail == InitWindow /\ [][NextFail]_vars

\* ------------------------------------------------------------- the claims
\* The plain sum of the five slider values.
PlainSum(val) == SumSeq([i \in 1..Len(SliderOrder) |-> val[SliderOrder[i]]])

\* The number of times key k occurs in the sequence ks.
Count(k, ks) == Cardinality({i \in 1..Len(ks) : ks[i] = k})

\* The eight field names of a rating entry.
EntryFields ==
    {"altman_date", "altman_time", "altmans_sleep", "altmans_speech",
     "altmans_activity", "altmans_cheer", "altmans_confidence", "altmans_summary"}

\* C1: in every state of the constructed window the summary field equals the
\* sum of the slider values above zero, which is the plain sum of the five.
C1_SummaryIsSum ==
    pc = "running" =>
        /\ summary = PlainSum(value)
        /\ summary = AltmansSum(value)

\* C2: a trigger of the commit action makes exactly one call of the insert
\* operation, with the fixed mapping of the eight fields and with the values
\* the date, time, slider and summary widgets hold when it is triggered.
C2_CommitInsertsCurrent ==
    [][event' = "commit" =>
          /\ Len(calls') = 1
          /\ calls'[1].op = "add_altmans_data"
          /\ calls'[1].insert = "insert_into_altman_table"
          /\ \A c \in EntryFields : calls'[1].mapping[c] = c
          /\ DOMAIN calls'[1].row = EntryFields
          /\ calls'[1].row["altman_date"] = date
          /\ calls'[1].row["altman_time"] = time
          /\ calls'[1].row["altmans_summary"] = summary
          /\ \A n \in SliderNames : calls'[1].row[n] = value[n]]_vars

\* A commit of an entry whose date and time were edited apart after the
\* window set both from the clock, with a summary above zero.
C2_Witness ==
    /\ event = "commit"
    /\ Len(calls) = 1
    /\ calls[1].row["altman_date"] # calls[1].row["altman_time"]
    /\ calls[1].row["altmans_summary"] > 0

C4_NoFailureEscapes ==
    /\ escaped = "none"
    /\ pc # "crashed"

\* C5: a session that finds no saved geometry, windowState or lastPageIndex
\* goes through app_operations and restore_state with nothing raised or
\* logged, with the geometry of the layout and with page 0 current.
C5_NothingSavedStartsAtPageZero ==
    (emptyAtStart /\ pc \in {"stack_navigation", "delete_group"}) =>
        /\ page = 0
        /\ size = LayoutSize
        /\ ~fixed
        /\ escaped = "none"
        /\ log = {}
        /\ "geometry" \notin DOMAIN settings
        /\ "windowState" \notin DOMAIN settings

\* Startup on an empty store done, where the layout had shown the other page.
C5_Witness ==
    /\ emptyAtStart
    /\ pc = "stack_navigation"
    /\ page = 0
    /\ "lastPageIndex" \in DOMAIN settings

\* C6: once app_operations ran, the stored lastPageIndex, when there is one,
\* is the index of the current page (none stored: page 0), a page change
\* stores the new index, and a session started after a close shows the page
\* that was current at the close.
C6_LastPageRoundTrip ==
    pc \notin {"setup_models", "app_operations"} =>
        /\ page = Get(settings, "lastPageIndex", 0)
        /\ Count("lastPageIndex", writes) > 0 =>
              ("lastPageIndex" \in DOMAIN settings /\ settings["lastPageIndex"] = page)
        /\ (event = "none" /\ closedPages # {}) => page \in closedPages

\* A session that came up on page 1, the page shown when the last one closed.
C6_Witness ==
    /\ pc = "running"
    /\ event = "none"
    /\ closedPages = {1}
    /\ page = 1

\* C7: every row a commit hands to the insert operation has its summary equal
\* to the sum of its own non-zero slider values, each of them in 0..4.
C7_RowInvariant ==
    \A i \in 1..Len(calls) :
        calls[i].op = "add_altmans_data" =>
            /\ \A n \in SliderNames : calls[i].row[n] \in 0..4
            /\ calls[i].row["altmans_summary"] = AltmansSum(calls[i].row)

\* C8: a slider change in the running window changes that slider and the
\* summary only: the other sliders, the date, the time, the page, the size,
\* the store and the rows stay, and no collaborator is called.
C8_SummaryOnly ==
    [][(pc = "running" /\ value' # value) =>
          /\ \E n \in SliderNames : value' = [value EXCEPT ![n] = value'[n]]
          /\ summary' = PlainSum(value')
          /\ UNCHANGED <<date, time, page, size, fixed, settings, rows, range>>
          /\ calls' = <<>>
          /\ writes' = <<>>]_vars

\* A slider change with a row stored, date and time apart, summary 7.
C8_Witness ==
    /\ event = "edit"
    /\ calls = <<>>
    /\ rows = 1
    /\ date # time
    /\ summary = 7

\* C9: after a trigger of a menu action the current page is that action's
\* page and the window is pinned to that page's size; the two slots of the
\* action name the same page, so the page changes at most once per trigger.
C9_PageMatchesSize ==
    event \in {"exam", "table"} =>
        /\ page = (IF event = "exam" THEN 0 ELSE 1)
        /\ size = (IF event = "exam" THEN <<476, 175>> ELSE <<800, 460>>)
        /\ fixed
        /\ Len(writes) <= 1

\* The table page shown in a second session.
C9_Witness ==
    /\ event = "table"
    /\ page = 1
    /\ size = <<800, 460>>
    /\ closedPages # {}

\* C10: when __init__ is through, the summary equals the sum of the five
\* slider values and every slider value lies in 0..4.
C10_FreshSummary ==
    (pc = "running" /\ event = "none") =>
        /\ \A n \in SliderNames : value[n] \in 0..4
        /\ summary = PlainSum(value)
====
